---- MODULE Spec2Model ----
(***************************************************************************)
(* Model of src/app.py: the YouTube lifestyle coach.                       *)
(*                                                                         *)
(* Strings are sequences of one-character strings (a JSON payload or a     *)
(* transcript body is one opaque element of such a sequence).  Python's    *)
(* None is the one-element sequence None, which no string equals.          *)
(*                                                                         *)
(*   Spec      the button handler (lines 187-288): input guards, the batch *)
(*             loop, the corpus guard, the retry loop of                   *)
(*             generate_coaching_data, parsing and rendering               *)
(*   SpecUrl   extract_video_id applied to bounded strings                 *)
(*   SpecRes   get_transcript_text applied to every mock transcript backend*)
(*   SpecIcs   create_ics_file applied to bounded lists of routine items   *)
(***************************************************************************)
EXTENDS Integers, Sequences, FiniteSets

VARIABLES
    pc,                 \* position of the button handler
    api_key,            \* sidebar text input (line 171)
    video_urls_input,   \* text area (line 185), as its sequence of lines
    urls,               \* line 193
    i,                  \* number of urls the batch loop has finished
    all_transcripts,    \* line 195: the corpus, one labeled block per success
    valid_video_count,  \* line 196
    warnings,           \* the urls st.warning was shown for (line 211)
    item_outcomes,      \* history: what happened to each url, in order
    attempt,            \* loop variable of generate_coaching_data (line 114)
    responses,          \* history: the backend's answer to each generate_content call
    sleeps,             \* history: the argument of each time.sleep (line 131)
    raw_response,       \* line 220
    outcome,            \* what the run ended in
    shown,              \* what the tabs display (lines 232-279)
    arg,                \* SpecUrl, SpecRes, SpecIcs: the function's argument
    ret                 \* SpecUrl, SpecRes, SpecIcs: its result once called

runVars == <<pc, api_key, video_urls_input, urls, i, all_transcripts,
             valid_video_count, warnings, item_outcomes, attempt, responses,
             sleeps, raw_response, outcome, shown>>
funVars == <<arg, ret>>
vars == <<runVars, funVars>>

None == <<"None">>
\* shown while the tabs show nothing
NothingShown == [kind |-> "nothing"]

\* ret before the call, and after it
NotCalled == [called |-> FALSE, value |-> <<>>]
Returned(v) == [called |-> TRUE, value |-> v]

\* Bool(x) of a Python str-or-None: None and "" are falsy.
Truthy(s) == s # None /\ s # <<>>

(***************************************************************************)
(* Strings                                                                 *)
(***************************************************************************)
RECURSIVE Concat(_)
Concat(ss) == IF ss = <<>> THEN <<>> ELSE Head(ss) \o Concat(Tail(ss))

Repeat(c, n) == [k \in 1..n |-> c]

StartsWith(s, p) == Len(s) >= Len(p) /\ SubSeq(s, 1, Len(p)) = p
EndsWith(s, p) == Len(s) >= Len(p) /\ SubSeq(s, Len(s) - Len(p) + 1, Len(s)) = p

Whitespace == {" ", "\n", "\t"}

RECURSIVE LStrip(_)
LStrip(s) == IF s # <<>> /\ Head(s) \in Whitespace THEN LStrip(Tail(s)) ELSE s

RECURSIVE RStrip(_)
RStrip(s) ==
    IF s # <<>> /\ s[Len(s)] \in Whitespace THEN RStrip(SubSeq(s, 1, Len(s) - 1)) ELSE s

\* str.strip()
Strip(s) == RStrip(LStrip(s))

(***************************************************************************)
(* extract_video_id (lines 14-22)                                          *)
(***************************************************************************)
Digits == {"0", "1", "2", "3", "4", "5", "6", "7", "8", "9"}
Upper == {"A", "B", "C", "D", "E", "F", "G", "H", "I", "J", "K", "L", "M",
          "N", "O", "P", "Q", "R", "S", "T", "U", "V", "W", "X", "Y", "Z"}
Lower == {"a", "b", "c", "d", "e", "f", "g", "h", "i", "j", "k", "l", "m",
          "n", "o", "p", "q", "r", "s", "t", "u", "v", "w", "x", "y", "z"}

\* the character class [0-9A-Za-z_-]
IdChars == Digits \cup Upper \cup Lower \cup {"_", "-"}

\* the repetition count {11}
IdLen == 11

\* ([0-9A-Za-z_-]{11}) matched at position q of s
GroupAt(s, q) ==
    /\ q + IdLen - 1 <= Len(s)
    /\ \A k \in q..(q + IdLen - 1) : s[k] \in IdChars

\* Where the group starts when (?:v=|/)([0-9A-Za-z_-]{11}) matches at position
\* p of s, 0 when it does not: the alternatives are tried in order, "v=" first.
\* The trailing .* matches any rest, the empty one included.
MatchAt(s, p) ==
    IF p + 1 <= Len(s) /\ s[p] = "v" /\ s[p + 1] = "=" /\ GroupAt(s, p + 2) THEN p + 2
    ELSE IF s[p] = "/" /\ GroupAt(s, p + 1) THEN p + 1
    ELSE 0

\* re_search that takes the rightmost match.
RECURSIVE re_search_last(_, _)
re_search_last(s, p) ==
    IF p > Len(s) THEN 0
    ELSE IF re_search_last(s, p + 1) # 0 THEN re_search_last(s, p + 1)
    ELSE MatchAt(s, p)

\* re.search: the match at the leftmost position that has one
RECURSIVE re_search(_, _)
re_search(s, p) ==
    IF p > Len(s) THEN 0
    ELSE IF MatchAt(s, p) # 0 THEN MatchAt(s, p)
    ELSE re_search(s, p + 1)

extract_video_id(url) ==
    LET match == re_search(url, 1)
    IN  IF match # 0 THEN SubSeq(url, match, match + IdLen - 1) ELSE None

(***************************************************************************)
(* get_transcript_text (lines 24-54)                                       *)
(*                                                                         *)
(* A mock transcript backend for one video is a record:                    *)
(*   listing    "ok" or "error": whether list_transcripts succeeds         *)
(*   manual     the manually created ko/en transcript: "none" when         *)
(*              find_manually_created_transcript raises, else what its     *)
(*              fetch() does: "ok", "empty" (no text) or "fetch_fail"      *)
(*   generated  the same for find_generated_transcript                     *)
(*   other      the first transcript of the listing when there is no ko/en *)
(*              one: "none" when the listing is empty (next raises),       *)
(*              "untranslatable" when translate('ko') raises, else what    *)
(*              the translated transcript's fetch() does                   *)
(***************************************************************************)
FetchOutcomes == {"ok", "empty", "fetch_fail"}

Backends ==
    [listing : {"ok", "error"},
     manual : {"none"} \cup FetchOutcomes,
     generated : {"none"} \cup FetchOutcomes,
     other : {"none", "untranslatable"} \cup FetchOutcomes]

\* SelectTranscript without its second tier.
SelectTranscript_skip2(b) ==
    IF b.manual # "none"
    THEN [tier |-> 1, state |-> b.manual,
          calls |-> <<"find_manually_created_transcript">>]
    ELSE IF b.other = "none"
         THEN [tier |-> 0, state |-> "none",
               calls |-> <<"find_manually_created_transcript", "next">>]
    ELSE IF b.other = "untranslatable"
         THEN [tier |-> 0, state |-> "none",
               calls |-> <<"find_manually_created_transcript", "next", "translate">>]
    ELSE [tier |-> 3, state |-> b.other,
          calls |-> <<"find_manually_created_transcript", "next", "translate">>]

\* Lines 32-47: the nested try/except that selects the transcript.  tier 0 is
\* the inner "return None"; state is what the selected transcript's fetch() will
\* do; calls logs the backend calls made, in order.
SelectTranscript(b) ==
    IF b.manual # "none"
    THEN [tier |-> 1, state |-> b.manual,
          calls |-> <<"find_manually_created_transcript">>]
    ELSE IF b.generated # "none"
         THEN [tier |-> 2, state |-> b.generated,
               calls |-> <<"find_manually_created_transcript",
                           "find_generated_transcript">>]
    ELSE IF b.other = "none"
         THEN [tier |-> 0, state |-> "none",
               calls |-> <<"find_manually_created_transcript",
                           "find_generated_transcript", "next">>]
    ELSE IF b.other = "untranslatable"
         THEN [tier |-> 0, state |-> "none",
               calls |-> <<"find_manually_created_transcript",
                           "find_generated_transcript", "next", "translate">>]
    ELSE [tier |-> 3, state |-> b.other,
          calls |-> <<"find_manually_created_transcript",
                      "find_generated_transcript", "next", "translate">>]

\* TextFormatter().format_transcript of what tier t's transcript fetches: the
\* text is named after its tier.
TranscriptText(t) ==
    IF t = 1 THEN <<"manual text">>
    ELSE IF t = 2 THEN <<"generated text">>
    ELSE <<"translated text">>

\* Lines 28-54.  The result is [text, tier, calls]: text is what the function
\* returns, tier the tier whose transcript was fetched (0: none).
get_transcript_text(b) ==
    IF b.listing = "error"
    THEN [text |-> None, tier |-> 0, calls |-> <<"list_transcripts">>]
    ELSE LET sel == SelectTranscript(b)
             calls == <<"list_transcripts">> \o sel.calls
         IN  IF sel.tier = 0
             THEN [text |-> None, tier |-> 0, calls |-> calls]
             ELSE IF sel.state = "fetch_fail"
                  THEN [text |-> None, tier |-> sel.tier,
                        calls |-> Append(calls, "fetch")]
             ELSE IF sel.state = "empty"
                  THEN [text |-> <<>>, tier |-> sel.tier,
                        calls |-> Append(calls, "fetch")]
             ELSE [text |-> TranscriptText(sel.tier), tier |-> sel.tier,
                   calls |-> Append(calls, "fetch")]

(***************************************************************************)
(* create_ics_file (lines 137-162)                                         *)
(*                                                                         *)
(* A routine item is a JSON object: a function from some of the keys       *)
(* activity, time, duration_minutes, notes.  time is a string;             *)
(* duration_minutes is JsonInt(n), JsonStr(s) or JsonNull.  A date is a    *)
(* day number.                                                             *)
(***************************************************************************)
Invalid == 0 - 1

DigitSeq == <<"0", "1", "2", "3", "4", "5", "6", "7", "8", "9">>
DigitValue(c) == (CHOOSE k \in 1..Len(DigitSeq) : DigitSeq[k] = c) - 1

RECURSIVE DecValue(_)
DecValue(s) ==
    IF s = <<>> THEN 0
    ELSE DecValue(SubSeq(s, 1, Len(s) - 1)) * Len(DigitSeq) + DigitValue(s[Len(s)])

\* int(s) of a string of decimal digits; Invalid where int raises ValueError
ParseInt(s) ==
    IF s # <<>> /\ \A k \in 1..Len(s) : s[k] \in Digits THEN DecValue(s) ELSE Invalid

\* str.split(sep) for a one-character separator
RECURSIVE Split(_, _)
Split(s, sep) ==
    IF \A k \in 1..Len(s) : s[k] # sep THEN <<s>>
    ELSE LET k == CHOOSE j \in 1..Len(s) :
                      s[j] = sep /\ \A l \in 1..(j - 1) : s[l] # sep
         IN  <<SubSeq(s, 1, k - 1)>> \o Split(SubSeq(s, k + 1, Len(s)), sep)

\* item.get(key, default)
Get(item, key, default) == IF key \in DOMAIN item THEN item[key] ELSE default

\* the default of item.get('duration_minutes', 30)
DefaultDuration == 30

\* the ranges datetime.time accepts
MaxHour == 23
MaxMinute == 59

\* Line 149 and the datetime.time of line 150: [valid, hour, minute]; not valid
\* when the item has no time, the unpacking of the split fails, int raises, or
\* the hour or minute is out of range.
NoTime == [valid |-> FALSE, hour |-> 0, minute |-> 0]

StartTime(item) ==
    IF "time" \notin DOMAIN item THEN NoTime
    ELSE LET parts == Split(item["time"], ":")
         IN  IF Len(parts) # 2 THEN NoTime
             ELSE LET h == ParseInt(parts[1])
                      m == ParseInt(parts[2])
                  IN  IF h = Invalid \/ m = Invalid THEN NoTime
                      ELSE IF h > MaxHour \/ m > MaxMinute THEN NoTime
                      ELSE [valid |-> TRUE, hour |-> h, minute |-> m]

\* JSON values a duration_minutes can hold: a number, a string, null
JsonInt(n) == [kind |-> "int", n |-> n, s |-> <<>>]
JsonStr(s) == [kind |-> "str", n |-> 0, s |-> s]
JsonNull == [kind |-> "null", n |-> 0, s |-> <<>>]

\* int(v) of a JSON value, Invalid where int raises
IntOf(v) ==
    IF v.kind = "int" THEN v.n
    ELSE IF v.kind = "str" THEN ParseInt(v.s)
    ELSE Invalid

\* DurationMinutes with an invalid value read as the default.
DurationMinutes_lenient(item) ==
    IF "duration_minutes" \notin DOMAIN item THEN DefaultDuration
    ELSE IF IntOf(item["duration_minutes"]) = Invalid THEN DefaultDuration
    ELSE IntOf(item["duration_minutes"])

\* Line 151: int(item.get('duration_minutes', 30)), Invalid when int raises
DurationMinutes(item) ==
    IF "duration_minutes" \notin DOMAIN item THEN DefaultDuration
    ELSE IntOf(item["duration_minutes"])

\* Lines 147-160, one pass of the loop: the events added for item, none when
\* an exception sends the pass to "continue".
ItemEvents(item, tomorrow) ==
    IF ~StartTime(item).valid THEN <<>>
    ELSE IF DurationMinutes(item) = Invalid THEN <<>>
    ELSE IF "activity" \notin DOMAIN item THEN <<>>
    ELSE <<[name |-> item["activity"],
            begin |-> [day |-> tomorrow,
                       hour |-> StartTime(item).hour,
                       minute |-> StartTime(item).minute],
            duration |-> DurationMinutes(item),
            description |-> Get(item, "notes", <<>>)]>>

RECURSIVE LoopItems(_, _)
LoopItems(items, tomorrow) ==
    IF items = <<>> THEN <<>>
    ELSE ItemEvents(Head(items), tomorrow) \o LoopItems(Tail(items), tomorrow)

\* Lines 142-162: the calendar, as the sequence of its events in the order they
\* were added.
create_ics_file(routine_items, today) ==
    LET tomorrow == today + 1
    IN  [events |-> LoopItems(routine_items, tomorrow)]

(***************************************************************************)
(* clean_json_string (lines 56-67) and json.loads                          *)
(*                                                                         *)
(* A JSON document is one element of the string, named after its value.    *)
(***************************************************************************)
\* the grave accent U+0060, which a TLA+ string cannot hold, is written "bq"
Fence == <<"bq", "bq", "bq">>
FenceJson == Fence \o <<"j", "s", "o", "n">>

clean_json_string(json_str) ==
    LET c0 == Strip(json_str)
        c1 == IF StartsWith(c0, FenceJson) THEN SubSeq(c0, 7 + 1, Len(c0)) ELSE c0
        c2 == IF StartsWith(c1, Fence) THEN SubSeq(c1, 3 + 1, Len(c1)) ELSE c1
        c3 == IF EndsWith(c2, Fence) THEN SubSeq(c2, 1, Len(c2) - 3) ELSE c2
    IN  Strip(c3)

Str(name) == <<name>>

Meditate ==
    [activity |-> Str("Meditate"), time |-> <<"0", "7", ":", "0", "0">>,
     duration_minutes |-> JsonInt(10), notes |-> Str("breathe")]
Walk == [activity |-> Str("Walk"), time |-> Str("evening")]
Book == [item_name |-> Str("Atomic Habits"), type |-> Str("Book")]

\* The values of the JSON documents the model's backend can send.
JsonDocs == {"{plan}", "{analysis only}", "{}", "[]", "null"}

JsonValue(doc) ==
    IF doc = "{plan}"
    THEN [type |-> "object",
          fields |-> [analysis |-> Str("mindset"), routine_items |-> <<Meditate, Walk>>,
                      recommended_resources |-> <<Book>>]]
    ELSE IF doc = "{analysis only}"
    THEN [type |-> "object", fields |-> [analysis |-> Str("mindset")]]
    ELSE IF doc = "{}" THEN [type |-> "object", fields |-> <<>>]
    ELSE IF doc = "[]" THEN [type |-> "array", fields |-> <<>>]
    ELSE [type |-> "null", fields |-> <<>>]

\* json.loads: [ok, value]; not ok where it raises JSONDecodeError.  Whitespace
\* around the document is allowed, anything else is not.
json_loads(s) ==
    LET t == Strip(s)
    IN  IF Len(t) = 1 /\ t[1] \in JsonDocs
        THEN [ok |-> TRUE, value |-> JsonValue(t[1])]
        ELSE [ok |-> FALSE, value |-> [type |-> "null", fields |-> <<>>]]

(***************************************************************************)
(* generate_coaching_data (lines 69-135)                                   *)
(*                                                                         *)
(* A backend response is either [kind |-> "ok", text] (response.text) or   *)
(* an exception, [kind |-> "error", has429, hasExhausted, retry_in],       *)
(* described by what the code reads of str(e): whether it contains "429",  *)
(* whether it contains "RESOURCE_EXHAUSTED", and the number the pattern    *)
(* "retry in (\d+(?:\.\d+)?)s" captures (whole seconds here), NoHint when  *)
(* the pattern does not match.                                             *)
(***************************************************************************)
\* max_retries off by one.
max_retries_4 == 3 + 1

\* Lines 111-112
max_retries == 3
base_delay == 5

NoHint == 0 - 1
\* the N of the mock backend's "retry in Ns"
HintSeconds == 7

RateLimitErrors ==
    {[kind |-> "error", text |-> None, has429 |-> TRUE, hasExhausted |-> FALSE, retry_in |-> NoHint],
     [kind |-> "error", text |-> None, has429 |-> FALSE, hasExhausted |-> TRUE, retry_in |-> NoHint],
     [kind |-> "error", text |-> None, has429 |-> TRUE, hasExhausted |-> TRUE, retry_in |-> HintSeconds]}

OtherErrors ==
    {[kind |-> "error", text |-> None, has429 |-> FALSE, hasExhausted |-> FALSE, retry_in |-> NoHint],
     [kind |-> "error", text |-> None, has429 |-> FALSE, hasExhausted |-> FALSE, retry_in |-> HintSeconds]}

Errors == RateLimitErrors \cup OtherErrors

ResponseTexts ==
    {<<"{plan}">>,
     FenceJson \o <<"\n", "{plan}", "\n">> \o Fence,
     Fence \o <<"{analysis only}">> \o Fence,
     <<"{}">>, <<"[]">>, <<"null">>,
     <<"{", "plan">>,
     <<>>, None}

Responses ==
    {[kind |-> "ok", text |-> t, has429 |-> FALSE, hasExhausted |-> FALSE, retry_in |-> NoHint] :
        t \in ResponseTexts}
    \cup Errors

\* IsRateLimit that takes every error for a rate limit.
IsRateLimit_any(e) == TRUE

\* Line 126
IsRateLimit(e) == e.has429 \/ e.hasExhausted

\* WaitTime without the doubling.
WaitTime_flat(attempt_, e) ==
    IF e.retry_in # NoHint THEN e.retry_in + 1 ELSE base_delay

\* Lines 127-130
WaitTime(attempt_, e) ==
    IF e.retry_in # NoHint THEN e.retry_in + 1 ELSE base_delay * (2 ^ attempt_)

(***************************************************************************)
(* The button handler (lines 187-288)                                      *)
(***************************************************************************)
MaxLines == 3
MaxToday == 2

Days == 1..MaxToday

\* "https://youtu.be/dQw4w9WgXcQ"
ShortUrl ==
    <<"h", "t", "t", "p", "s", ":", "/", "/", "y", "o", "u", "t", "u", ".", "b", "e", "/",
      "d", "Q", "w", "4", "w", "9", "W", "g", "X", "c", "Q">>
\* "not a url"
NotAUrl == <<"n", "o", "t", " ", "a", " ", "u", "r", "l">>
\* " https://www.youtube.com/watch?v=abcdefghijk&t=1 ", a line with spaces around it
WatchUrlLine ==
    <<" ", "h", "t", "t", "p", "s", ":", "/", "/", "w", "w", "w", ".", "y", "o", "u", "t",
      "u", "b", "e", ".", "c", "o", "m", "/", "w", "a", "t", "c", "h", "?", "v", "=",
      "a", "b", "c", "d", "e", "f", "g", "h", "i", "j", "k", "&", "t", "=", "1", " ">>

\* the lines a user can type: a blank one, a malformed one, a video link
Lines == {<<" ">>, NotAUrl, WatchUrlLine}

Inputs == UNION {[1..n -> Lines] : n \in 0..MaxLines}

\* Line 193: [url.strip() for url in video_urls_input.split('\n') if url.strip()]
RECURSIVE StripLines(_)
StripLines(lines) ==
    IF lines = <<>> THEN <<>>
    ELSE (IF Strip(Head(lines)) # <<>> THEN <<Strip(Head(lines))>> ELSE <<>>)
         \o StripLines(Tail(lines))

\* CorpusGuard that lets an empty corpus through.
CorpusGuard_ge == valid_video_count >= 0

\* Line 218
CorpusGuard == valid_video_count > 0

\* the text shown for a plan without "analysis" (line 237)
NoAnalysis == Str("no analysis")

RunInit ==
    /\ pc = "idle"
    /\ api_key \in {<<>>, Str("key")}
    /\ video_urls_input \in Inputs
    /\ urls = <<>>
    /\ i = 0
    /\ all_transcripts = <<>>
    /\ valid_video_count = 0
    /\ warnings = <<>>
    /\ item_outcomes = <<>>
    /\ attempt = 0
    /\ responses = <<>>
    /\ sleeps = <<>>
    /\ raw_response = None
    /\ outcome = "none"
    /\ shown = NothingShown

\* Lines 187-199: the click, the two input guards, the split into urls
Click ==
    /\ pc = "idle"
    /\ IF api_key = <<>>
       THEN /\ outcome' = "api_key_error"
            /\ pc' = "done"
            /\ UNCHANGED <<urls, all_transcripts, valid_video_count>>
       ELSE IF StripLines(video_urls_input) = <<>>
       THEN /\ outcome' = "no_url_warning"
            /\ pc' = "done"
            /\ UNCHANGED <<urls, all_transcripts, valid_video_count>>
       ELSE /\ urls' = StripLines(video_urls_input)
            /\ all_transcripts' = <<>>
            /\ valid_video_count' = 0
            /\ pc' = "loop"
            /\ outcome' = outcome
    /\ UNCHANGED <<api_key, video_urls_input, i, warnings, item_outcomes, attempt,
                   responses, sleeps, raw_response, shown>>
    /\ UNCHANGED funVars

\* Lines 201-213: one pass of the batch loop; b is what the transcript backend
\* holds for the video.
LoopItem ==
    /\ pc = "loop"
    /\ i < Len(urls)
    /\ \E b \in Backends :
         LET url == urls[i + 1]
             video_id == extract_video_id(url)
             transcript == get_transcript_text(b).text
         IN  IF video_id # None
             THEN IF Truthy(transcript)
                  THEN /\ all_transcripts' =
                            Append(all_transcripts,
                                   [video_id |-> video_id, transcript |-> transcript])
                       /\ valid_video_count' = valid_video_count + 1
                       /\ warnings' = warnings
                       /\ item_outcomes' = Append(item_outcomes, "ok")
                  ELSE /\ warnings' = Append(warnings, url)
                       /\ item_outcomes' =
                            Append(item_outcomes,
                                   IF transcript = None THEN "none" ELSE "empty")
                       /\ UNCHANGED <<all_transcripts, valid_video_count>>
             ELSE /\ item_outcomes' = Append(item_outcomes, "unparseable")
                  /\ UNCHANGED <<all_transcripts, valid_video_count, warnings>>
    /\ i' = i + 1
    /\ UNCHANGED <<pc, api_key, video_urls_input, urls, attempt, responses, sleeps,
                   raw_response, outcome, shown>>
    /\ UNCHANGED funVars

\* Lines 215-220 and 287-288: the loop is over; call generate_coaching_data or
\* show the empty-corpus error.
LoopEnd ==
    /\ pc = "loop"
    /\ i = Len(urls)
    /\ IF CorpusGuard
       THEN /\ pc' = "generate"
            /\ attempt' = 0
            /\ outcome' = outcome
       ELSE /\ pc' = "done"
            /\ outcome' = "empty_corpus_error"
            /\ attempt' = attempt
    /\ UNCHANGED <<api_key, video_urls_input, urls, i, all_transcripts,
                   valid_video_count, warnings, item_outcomes, responses, sleeps,
                   raw_response, shown>>
    /\ UNCHANGED funVars

\* Lines 114-133: one pass of the retry loop; r is the backend's answer.
GenAttempt ==
    /\ pc = "generate"
    /\ attempt < max_retries
    /\ \E r \in Responses :
         /\ responses' = Append(responses, r)
         /\ IF r.kind = "ok"
            THEN /\ raw_response' = r.text
                 /\ pc' = "parse"
                 /\ UNCHANGED <<attempt, sleeps>>
            ELSE IF IsRateLimit(r)
            THEN /\ sleeps' = Append(sleeps, WaitTime(attempt, r))
                 /\ attempt' = attempt + 1
                 /\ UNCHANGED <<pc, raw_response>>
            ELSE /\ raw_response' = None
                 /\ pc' = "parse"
                 /\ UNCHANGED <<attempt, sleeps>>
    /\ UNCHANGED <<api_key, video_urls_input, urls, i, all_transcripts,
                   valid_video_count, warnings, item_outcomes, outcome, shown>>
    /\ UNCHANGED funVars

\* Line 135: the retry loop ran out
GenExhausted ==
    /\ pc = "generate"
    /\ attempt >= max_retries
    /\ raw_response' = None
    /\ pc' = "parse"
    /\ UNCHANGED <<api_key, video_urls_input, urls, i, all_transcripts,
                   valid_video_count, warnings, item_outcomes, attempt, responses,
                   sleeps, outcome, shown>>
    /\ UNCHANGED funVars

\* Lines 232-279: what the tabs show for the parsed data
Tabs(fields, today) ==
    LET routines == Get(fields, "routine_items", <<>>)
    IN  [kind |-> "plan",
         analysis |-> Get(fields, "analysis", NoAnalysis),
         routines |-> routines,
         ics |-> IF routines # <<>> THEN create_ics_file(routines, today).events ELSE <<>>,
         resources |-> Get(fields, "recommended_resources", <<>>)]

\* Lines 222-286: parse the response and render it.  data.get on a value that is
\* no dict raises AttributeError, which nothing catches.
Render ==
    /\ pc = "parse"
    /\ \E today \in Days :
         IF Truthy(raw_response)
         THEN LET data == json_loads(clean_json_string(raw_response))
              IN  IF ~data.ok
                  THEN /\ outcome' = "json_error"
                       /\ shown' = [kind |-> "raw", raw |-> raw_response]
                  ELSE IF data.value.type # "object"
                  THEN /\ outcome' = "exception"
                       /\ shown' = NothingShown
                  ELSE /\ outcome' = "plan"
                       /\ shown' = Tabs(data.value.fields, today)
         ELSE /\ outcome' = "no_response_error"
              /\ shown' = NothingShown
    /\ pc' = "done"
    /\ UNCHANGED <<api_key, video_urls_input, urls, i, all_transcripts,
                   valid_video_count, warnings, item_outcomes, attempt, responses,
                   sleeps, raw_response>>
    /\ UNCHANGED funVars

Next == Click \/ LoopItem \/ LoopEnd \/ GenAttempt \/ GenExhausted \/ Render

Init == RunInit /\ arg = <<>> /\ ret = NotCalled

Spec == Init /\ [][Next]_vars

(***************************************************************************)
(* The functions on their own: the argument is drawn, the function called. *)
(***************************************************************************)
RunIdle ==
    /\ pc = "off"
    /\ api_key = <<>>
    /\ video_urls_input = <<>>
    /\ urls = <<>>
    /\ i = 0
    /\ all_transcripts = <<>>
    /\ valid_video_count = 0
    /\ warnings = <<>>
    /\ item_outcomes = <<>>
    /\ attempt = 0
    /\ responses = <<>>
    /\ sleeps = <<>>
    /\ raw_response = None
    /\ outcome = "none"
    /\ shown = NothingShown

\* extract_video_id
MaxSegs == 4

Segs ==
    {<<"/">>, <<"v", "=">>, <<"?">>, Repeat("a", IdLen), Repeat("b", IdLen - 1),
     Repeat("c", IdLen)}

UrlInputs ==
    {Concat(ss) : ss \in UNION {[1..n -> Segs] : n \in 0..MaxSegs}}
    \cup {ShortUrl, NotAUrl, Strip(WatchUrlLine)}

InitUrl == RunIdle /\ arg \in UrlInputs /\ ret = NotCalled

CallExtractVideoId ==
    /\ ~ret.called
    /\ ret' = Returned(extract_video_id(arg))
    /\ UNCHANGED <<arg, runVars>>

SpecUrl == InitUrl /\ [][CallExtractVideoId]_vars

\* get_transcript_text
InitRes == RunIdle /\ arg \in Backends /\ ret = NotCalled

CallGetTranscriptText ==
    /\ ~ret.called
    /\ ret' = Returned(get_transcript_text(arg))
    /\ UNCHANGED <<arg, runVars>>

SpecRes == InitRes /\ [][CallGetTranscriptText]_vars

\* create_ics_file
MaxItems == 2

Time0700 == <<"0", "7", ":", "0", "0">>

Times ==
    {Time0700,
     <<"2", "3", ":", "5", "9">>,
     <<"7", ":", "5">>,
     <<"2", "4", ":", "0", "0">>,
     <<"0", "7", ":", "6", "0">>,
     <<"0", "7", "0", "0">>,
     <<"0", "7", ":", "0", "0", ":", "0", "0">>,
     <<"a", "b", ":", "c", "d">>,
     <<>>}

Durations ==
    {JsonInt(10), JsonInt(45), JsonStr(<<"1", "5">>), JsonStr(<<"t", "e", "n">>), JsonNull}

Items ==
    {[activity |-> Str("Meditate"), time |-> t, notes |-> Str("breathe")] : t \in Times}
    \cup {[activity |-> Str("Meditate"), time |-> t, duration_minutes |-> d,
           notes |-> Str("breathe")] : t \in {Time0700, <<"0", "7", "0", "0">>}, d \in Durations}
    \cup {[time |-> Time0700, duration_minutes |-> JsonInt(10)],
          [activity |-> Str("Walk"), time |-> Time0700],
          [activity |-> Str("Walk"), notes |-> Str("slowly")]}

IcsInputs ==
    [items : UNION {[1..n -> Items] : n \in 0..MaxItems}, today : Days]

InitIcs == RunIdle /\ arg \in IcsInputs /\ ret = NotCalled

CallCreateIcsFile ==
    /\ ~ret.called
    /\ ret' = Returned(create_ics_file(arg.items, arg.today))
    /\ UNCHANGED <<arg, runVars>>

SpecIcs == InitIcs /\ [][CallCreateIcsFile]_vars

(***************************************************************************)
(* Claims                                                                  *)
(***************************************************************************)
Count(seq, S) == Cardinality({k \in 1..Len(seq) : seq[k] \in S})

\* the batch loop ran and is over
BatchOver == pc \in {"generate", "parse", "done"} /\ urls # <<>>

\* a rate-limit signal as the claims define it
ClaimRateLimit(r) == r.kind = "error" /\ (r.has429 \/ r.hasExhausted)

\* C1: the generative backend is invoked only when the success count is at
\* least 1 and the corpus is non-empty; a run in which every item failed (an
\* unparseable URL, or a transcript that resolved to none) makes no backend call
\* and ends in the empty-corpus error.
C1_EmptyCorpusGuard ==
    /\ (pc \in {"generate", "parse"} \/ responses # <<>>)
         => (valid_video_count >= 1 /\ all_transcripts # <<>>)
    /\ (BatchOver /\ Count(item_outcomes, {"unparseable", "none"}) = Len(urls))
         => (responses = <<>> /\ pc = "done" /\ outcome = "empty_corpus_error")

C1_Witness ==
    /\ pc = "done"
    /\ outcome = "empty_corpus_error"
    /\ Len(urls) >= 2
    /\ Count(item_outcomes, {"unparseable"}) >= 1
    /\ Count(item_outcomes, {"none"}) >= 1
    /\ responses = <<>>

\* C2: one call of generate_coaching_data makes at most 3 backend attempts, and
\* when the first 3 are answered with a rate-limit signal it returns None (the
\* run ends in the no-response error, nothing displayed) with no 4th attempt.
C2_RetryBound ==
    /\ Len(responses) <= 3
    /\ (Len(responses) = 3 /\ \A k \in 1..3 : ClaimRateLimit(responses[k]))
         => /\ raw_response = None
            /\ pc = "done" => (outcome = "no_response_error" /\ shown = NothingShown)

C2_Witness ==
    /\ pc = "done"
    /\ Len(responses) = 3
    /\ \A k \in 1..3 : ClaimRateLimit(responses[k])
    /\ outcome = "no_response_error"

\* C3: every wait follows a rate-limit failure (none before the first attempt),
\* and when attempts 1 and 2 fail with a rate-limit signal and attempt 3
\* succeeds, the result is attempt 3's text and the waits are 5s then 10s, a
\* failure with a retry hint of N seconds being followed by N+1 seconds instead.
C3_Wait(k, computed) ==
    IF responses[k].retry_in # NoHint THEN responses[k].retry_in + 1 ELSE computed

C3_BackoffSchedule ==
    /\ Len(sleeps) = Cardinality({k \in 1..Len(responses) : ClaimRateLimit(responses[k])})
    /\ (/\ Len(responses) = 3
        /\ ClaimRateLimit(responses[1])
        /\ ClaimRateLimit(responses[2])
        /\ responses[3].kind = "ok")
         => /\ pc \in {"parse", "done"}
            /\ raw_response = responses[3].text
            /\ sleeps = <<C3_Wait(1, 5), C3_Wait(2, 10)>>

C3_Witness ==
    /\ pc = "done"
    /\ Len(responses) = 3
    /\ ClaimRateLimit(responses[1]) /\ responses[1].retry_in = HintSeconds
    /\ ClaimRateLimit(responses[2]) /\ responses[2].retry_in = NoHint
    /\ responses[3].kind = "ok"
    /\ sleeps = <<HintSeconds + 1, 10>>
    /\ outcome = "plan"

\* C4: an attempt that fails with an error that is no rate-limit signal is the
\* last attempt: generate_coaching_data returns None at once, with no wait and
\* no further backend call, whatever the number of attempts left.
C4_NonRetryableFailsAtOnce ==
    \A k \in 1..Len(responses) :
        (responses[k].kind = "error" /\ ~ClaimRateLimit(responses[k]))
          => /\ k = Len(responses)
             /\ pc \in {"parse", "done"}
             /\ raw_response = None
             /\ Len(sleeps) = k - 1
             /\ pc = "done" => outcome = "no_response_error"

C4_Witness ==
    /\ pc = "done"
    /\ Len(responses) = 2
    /\ ClaimRateLimit(responses[1])
    /\ responses[2].kind = "error" /\ ~ClaimRateLimit(responses[2])
    /\ responses[2].retry_in # NoHint
    /\ Len(sleeps) = 1
    /\ outcome = "no_response_error"

\* C7 as claimed: once the batch is over every url has been processed once, the
\* corpus holds one block per success, and one skip has been reported for each
\* failed item, an unparseable URL included.
C7_OneSkipPerFailedItem ==
    BatchOver
      => /\ Len(item_outcomes) = Len(urls)
         /\ Len(all_transcripts) = valid_video_count
         /\ valid_video_count = Count(item_outcomes, {"ok"})
         /\ Len(warnings) = Len(urls) - Count(item_outcomes, {"ok"})

\* the three names a CoachingPlan has
PlanKeys == {"analysis", "routine_items", "recommended_resources"}

SchemaOk(text) ==
    LET data == json_loads(clean_json_string(text))
    IN  data.ok /\ data.value.type = "object" /\ PlanKeys \subseteq DOMAIN data.value.fields

\* C8 as claimed: a run that got text from the backend ends either with a plan
\* that parsed under the CoachingPlan schema or in the hard failure that shows
\* the raw response.
C8_AllOrNothing ==
    (pc = "done" /\ Truthy(raw_response))
      => \/ outcome = "plan" /\ SchemaOk(raw_response)
         \/ outcome = "json_error" /\ shown.kind = "raw" /\ ~SchemaOk(raw_response)

\* where name is in the call log, 0 when it is not
Pos(calls, name) ==
    IF \E k \in 1..Len(calls) : calls[k] = name
    THEN CHOOSE k \in 1..Len(calls) : calls[k] = name
    ELSE 0

\* C5: the tiers are tried in the order manual, auto-generated, translated, a
\* later one only after every earlier lookup failed; with only an auto-generated
\* transcript the resolver returns it as tier 2 and never calls translate; with
\* a manual transcript it calls neither find_generated_transcript nor translate.
C5_TierOrder ==
    ret.called =>
      LET c == ret.value.calls
          manual == Pos(c, "find_manually_created_transcript")
          generated == Pos(c, "find_generated_transcript")
          any == Pos(c, "next")
          translate == Pos(c, "translate")
      IN  /\ Count(c, {"find_manually_created_transcript"}) <= 1
          /\ Count(c, {"find_generated_transcript"}) <= 1
          /\ Count(c, {"translate"}) <= 1
          /\ arg.listing = "ok" => manual # 0
          /\ generated # 0 => (arg.manual = "none" /\ 0 < manual /\ manual < generated)
          /\ any # 0 => (arg.manual = "none" /\ arg.generated = "none"
                         /\ 0 < generated /\ generated < any)
          /\ translate # 0 => (any # 0 /\ any < translate)
          /\ (arg.listing = "ok" /\ arg.manual = "none" /\ arg.generated # "none")
               => (ret.value.tier = 2 /\ any = 0 /\ translate = 0)
          /\ (arg.listing = "ok" /\ arg.manual = "none" /\ arg.generated = "ok")
               => ret.value.text = <<"generated text">>
          /\ (arg.listing = "ok" /\ arg.manual # "none")
               => (ret.value.tier = 1 /\ generated = 0 /\ any = 0 /\ translate = 0)
          /\ (arg.listing = "ok" /\ arg.manual = "none" /\ arg.generated = "none"
              /\ arg.other \notin {"none", "untranslatable"})
               => (ret.value.tier = 3 /\ translate # 0)

C5_Witness ==
    /\ ret.called
    /\ arg = [listing |-> "ok", manual |-> "none", generated |-> "ok", other |-> "none"]
    /\ ret.value.tier = 2
    /\ ret.value.text = <<"generated text">>
    /\ ret.value.calls = <<"list_transcripts", "find_manually_created_transcript",
                           "find_generated_transcript", "fetch">>

\* a tier fails when its lookup fails or the fetch of its transcript does
Tier1Fails(b) == b.manual \in {"none", "fetch_fail"}
Tier2Fails(b) == b.generated \in {"none", "fetch_fail"}
Tier3Fails(b) == b.other \in {"none", "untranslatable", "fetch_fail"}

\* C6 as claimed: a tier that fails in any way, the fetch of its transcript
\* included, falls through to the next tier, and the result is none only when
\* the listing failed or all three tiers did.
C6_FallThroughOnAnyFailure ==
    ret.called =>
      /\ ret.value.text = None
           => (arg.listing = "error"
               \/ (Tier1Fails(arg) /\ Tier2Fails(arg) /\ Tier3Fails(arg)))
      /\ (arg.listing = "ok" /\ Tier1Fails(arg))
           => Pos(ret.value.calls, "find_generated_transcript") # 0

\* what the item's time means as HH:MM, NoTime when it is not one: digits, one
\* colon, digits, the hour at most 23 and the minute at most 59
AllDigits(s) == s # <<>> /\ \A k \in 1..Len(s) : s[k] \in Digits

ClockOf(item) ==
    IF "time" \notin DOMAIN item THEN NoTime
    ELSE LET t == item["time"]
             colons == {k \in 1..Len(t) : t[k] = ":"}
         IN  IF Cardinality(colons) # 1 THEN NoTime
             ELSE LET k == CHOOSE j \in colons : TRUE
                      hh == SubSeq(t, 1, k - 1)
                      mm == SubSeq(t, k + 1, Len(t))
                  IN  IF AllDigits(hh) /\ AllDigits(mm)
                         /\ DecValue(hh) <= 23 /\ DecValue(mm) <= 59
                      THEN [valid |-> TRUE, hour |-> DecValue(hh), minute |-> DecValue(mm)]
                      ELSE NoTime

TimeParses(item) == ClockOf(item).valid

DurationAbsent(item) == "duration_minutes" \notin DOMAIN item

\* the duration is a number, or a string of digits
DurationIsInt(item) ==
    /\ ~DurationAbsent(item)
    /\ \/ item["duration_minutes"].kind = "int"
       \/ item["duration_minutes"].kind = "str" /\ AllDigits(item["duration_minutes"].s)

DurationValue(item) ==
    IF item["duration_minutes"].kind = "int" THEN item["duration_minutes"].n
    ELSE DecValue(item["duration_minutes"].s)

HasActivity(item) == "activity" \in DOMAIN item

\* C9 as claimed, for items that all have an activity: one event for each item
\* whose time parses and none for any other item; the event lasts the item's
\* duration_minutes, or 30 minutes when that is absent or invalid, and starts at
\* HH:MM on the day after generation.
C9_DropsOnlyBadTimes ==
    (ret.called /\ \A k \in 1..Len(arg.items) : HasActivity(arg.items[k])) =>
      LET kept == SelectSeq(arg.items, TimeParses)
          ev == ret.value.events
      IN  /\ Len(ev) = Len(kept)
          /\ \A k \in 1..Len(kept) :
               /\ ev[k].begin = [day |-> arg.today + 1, hour |-> ClockOf(kept[k]).hour,
                                 minute |-> ClockOf(kept[k]).minute]
               /\ ev[k].duration =
                    IF DurationIsInt(kept[k]) THEN DurationValue(kept[k]) ELSE 30

\* an item create_ics_file makes an event of
Eligible(item) ==
    /\ TimeParses(item)
    /\ HasActivity(item)
    /\ DurationAbsent(item) \/ DurationIsInt(item)

\* C9 amended: one event for each item that has an activity, a time that parses
\* and a duration_minutes that is absent or an integer, and none for any other
\* item; the event is titled with the activity, lasts duration_minutes, or 30
\* minutes when that is absent, starts at HH:MM on the day after generation and
\* is described by the notes.
C9_DropsMalformedItems ==
    ret.called =>
      LET kept == SelectSeq(arg.items, Eligible)
          ev == ret.value.events
      IN  /\ Len(ev) = Len(kept)
          /\ \A k \in 1..Len(kept) :
               /\ ev[k].name = kept[k]["activity"]
               /\ ev[k].begin = [day |-> arg.today + 1, hour |-> ClockOf(kept[k]).hour,
                                 minute |-> ClockOf(kept[k]).minute]
               /\ ev[k].duration =
                    IF DurationAbsent(kept[k]) THEN 30 ELSE DurationValue(kept[k])
               /\ ev[k].description =
                    IF "notes" \in DOMAIN kept[k] THEN kept[k]["notes"] ELSE <<>>

C9_Witness ==
    /\ ret.called
    /\ Len(arg.items) = 2
    /\ TimeParses(arg.items[1]) /\ ~DurationAbsent(arg.items[1]) /\ ~DurationIsInt(arg.items[1])
    /\ TimeParses(arg.items[2]) /\ DurationAbsent(arg.items[2])
    /\ Len(ret.value.events) = 1
    /\ ret.value.events[1].duration = 30
    /\ ret.value.events[1].begin.day = arg.today + 1

\* the pattern occurs at position p of s: "v=" or "/" there, then 11
\* identifier characters; the identifier starts at IdStart
Prefix(s, p) ==
    IF s[p] = "/" THEN 1
    ELSE IF p < Len(s) /\ s[p] = "v" /\ s[p + 1] = "=" THEN 2
    ELSE 0

Occurs(s, p) ==
    /\ Prefix(s, p) # 0
    /\ p + Prefix(s, p) + 10 <= Len(s)
    /\ \A k \in 0..10 : s[p + Prefix(s, p) + k] \in IdChars

\* C10: when the pattern occurs in the string, extract_video_id returns the 11
\* characters of its first occurrence; otherwise it returns None.
C10_ExtractId ==
    ret.called =>
      LET occ == {p \in 1..Len(arg) : Occurs(arg, p)}
      IN  IF occ = {} THEN ret.value = None
          ELSE LET p == CHOOSE q \in occ : \A r \in occ : q <= r
                   first == p + Prefix(arg, p)
               IN  /\ ret.value = SubSeq(arg, first, first + 10)
                   /\ Len(ret.value) = 11

C10_Witness ==
    /\ ret.called
    /\ arg = ShortUrl
    /\ ret.value = <<"d", "Q", "w", "4", "w", "9", "W", "g", "X", "c", "Q">>

====
